---- MODULE Spec2Model ----
(***************************************************************************)
(* clicache: an on-disk cache of command results, shared by uncoordinated  *)
(* processes.  The model follows src/clicache/__init__.py: the key          *)
(* derivation (_hash, _hash2dir), the writer (_cache), the reader           *)
(* (_cached_runsh) and the orchestrator (runsh), each statement that        *)
(* touches the file system being one atomic step of a process.              *)
(***************************************************************************)
EXTENDS Integers, Sequences, FiniteSets, TLC

(***************************************************************************)
(* Text.  A Python string is a sequence of one-character strings.          *)
(***************************************************************************)
None == "None"

\* inputstr=None: no text, being no sequence of characters
NoInput == <<"None">>

SafeChars == {"a", "b", "c", "d", "e", "h", "o", "t", "x", "y",
              "0", "1", "2", "3", "4", "5", "6", "7", "8", "9",
              "_", "-", ".", ",", "/"}

\* text.replace("'", "'\''")
RECURSIVE ReplaceQuote(_)
ReplaceQuote(text) ==
    IF text = <<>> THEN <<>>
    ELSE (IF Head(text) = "'" THEN <<"'", "\\", "'", "'">> ELSE <<Head(text)>>)
         \o ReplaceQuote(Tail(text))

\* cli.shquote: the text between single quotes, each embedded quote escaped
shquote(text) == <<"'">> \o ReplaceQuote(text) \o <<"'">>

\* cli.re_unquote.match(arg): one or more safe characters ('$' also matches
\* before one final newline)
re_unquote(arg) ==
    LET core == IF Len(arg) > 0 /\ arg[Len(arg)] = "\n"
                THEN SubSeq(arg, 1, Len(arg) - 1) ELSE arg
    IN  /\ Len(core) > 0
        /\ \A i \in 1..Len(core) : core[i] \in SafeChars

\* the loop of cli.argv2sh: sh += ' ' and then the argument, quoted if needed
RECURSIVE Argv2ShLoop(_)
Argv2ShLoop(argv) ==
    IF argv = <<>> THEN <<>>
    ELSE <<" ">> \o (IF re_unquote(Head(argv)) THEN Head(argv) ELSE shquote(Head(argv)))
         \o Argv2ShLoop(Tail(argv))

\* cli.argv2sh: sh[1:]
argv2sh(argv) ==
    LET sh == Argv2ShLoop(argv) IN SubSeq(sh, 2, Len(sh))

\* a command is shell code (a string) or an argument vector
ShStr(s)   == [kind |-> "str", v |-> s]
ShArgv(av) == [kind |-> "argv", v |-> av]

\* a reverse that leaves the input out
ReverseNoInput(sh, inputstr) == IF sh.kind = "argv" THEN argv2sh(sh.v) ELSE sh.v

\* the text _hash feeds to sha1 (the `reverse`)
Reverse(sh, inputstr) ==
    LET r == IF sh.kind = "argv" THEN argv2sh(sh.v) ELSE sh.v
    IN  IF inputstr # NoInput
        THEN <<"e", "c", "h", "o", " ">> \o shquote(inputstr) \o <<" ", "|", " ">> \o r
        ELSE r

\* hashlib.sha1(r).hexdigest(), tabulated for the texts of this model
Sha1Table ==
       <<"'", "c", " ", "d", "'">>
         :> <<"c", "8", "3", "f", "f", "8", "b", "a", "6", "9", "5", "e", "9", "b", "a", "4", "3", "4", "c", "6", "3", "e", "1", "b", "3", "e", "e", "7", "f", "0", "4", "b", "9", "2", "8", "a", "b", "8", "d", "4">> @@
       <<"'", "c", "'", "\\", "'", "'", "d", "'">>
         :> <<"f", "8", "8", "3", "f", "6", "b", "b", "2", "b", "6", "d", "a", "3", "c", "d", "7", "b", "1", "5", "9", "8", "5", "6", "c", "f", "c", "b", "7", "6", "4", "1", "3", "c", "f", "c", "3", "7", "2", "4">> @@
       <<"c">>
         :> <<"8", "4", "a", "5", "1", "6", "8", "4", "1", "b", "a", "7", "7", "a", "5", "b", "4", "6", "4", "8", "d", "e", "2", "c", "d", "0", "d", "f", "c", "b", "3", "0", "e", "a", "4", "6", "d", "b", "b", "4">> @@
       <<"c", " ", "d">>
         :> <<"3", "5", "2", "6", "a", "0", "4", "3", "5", "9", "0", "f", "9", "f", "9", "a", "b", "3", "4", "a", "1", "2", "5", "9", "9", "e", "d", "4", "9", "e", "4", "3", "e", "4", "7", "1", "5", "f", "1", "3">> @@
       <<"d">>
         :> <<"3", "c", "3", "6", "3", "8", "3", "6", "c", "f", "4", "e", "1", "6", "6", "6", "6", "6", "6", "9", "a", "2", "5", "d", "a", "2", "8", "0", "a", "1", "8", "6", "5", "c", "2", "d", "2", "8", "7", "4">> @@
       <<"e", "c", "h", "o", " ", "'", "'", " ", "|", " ", "'", "c", " ", "d", "'">>
         :> <<"e", "3", "b", "c", "c", "3", "2", "5", "f", "c", "1", "4", "f", "c", "7", "5", "5", "b", "a", "4", "0", "4", "3", "6", "7", "f", "3", "3", "5", "a", "6", "0", "d", "9", "6", "2", "9", "a", "5", "5">> @@
       <<"e", "c", "h", "o", " ", "'", "'", " ", "|", " ", "'", "c", "'", "\\", "'", "'", "d", "'">>
         :> <<"d", "f", "0", "8", "b", "6", "a", "3", "7", "6", "4", "6", "8", "6", "f", "f", "0", "6", "7", "2", "e", "5", "b", "4", "4", "3", "8", "7", "1", "7", "b", "f", "5", "7", "8", "e", "4", "3", "3", "b">> @@
       <<"e", "c", "h", "o", " ", "'", "'", " ", "|", " ", "c">>
         :> <<"2", "f", "0", "7", "6", "7", "0", "e", "3", "3", "c", "b", "d", "9", "9", "3", "0", "8", "b", "5", "2", "7", "3", "8", "0", "c", "3", "e", "7", "9", "5", "6", "0", "f", "7", "0", "c", "3", "b", "5">> @@
       <<"e", "c", "h", "o", " ", "'", "'", " ", "|", " ", "c", " ", "d">>
         :> <<"3", "f", "9", "1", "4", "4", "1", "8", "8", "b", "5", "6", "e", "6", "1", "c", "4", "a", "7", "7", "7", "a", "7", "7", "2", "a", "f", "2", "7", "c", "3", "b", "1", "3", "b", "0", "7", "b", "b", "0">> @@
       <<"e", "c", "h", "o", " ", "'", "'", " ", "|", " ", "d">>
         :> <<"3", "3", "9", "5", "4", "f", "c", "e", "c", "8", "1", "9", "e", "a", "5", "1", "4", "3", "1", "9", "8", "a", "5", "5", "9", "a", "b", "3", "2", "0", "a", "6", "3", "9", "4", "5", "2", "c", "f", "9">> @@
       <<"e", "c", "h", "o", " ", "'", "'", " ", "|", " ", "e", "c", "h", "o", " ", "'", "x", "'", " ", "|", " ", "c">>
         :> <<"c", "b", "8", "a", "5", "5", "f", "a", "d", "7", "b", "e", "9", "0", "0", "3", "1", "3", "2", "8", "5", "2", "a", "5", "5", "1", "c", "b", "0", "9", "a", "8", "f", "b", "3", "b", "1", "6", "c", "c">> @@
       <<"e", "c", "h", "o", " ", "'", "'", " ", "|", " ", "e", "c", "h", "o", " ", "1", "0">>
         :> <<"1", "d", "4", "3", "a", "f", "f", "b", "2", "b", "a", "c", "8", "a", "b", "a", "f", "0", "c", "d", "c", "b", "3", "c", "e", "b", "f", "e", "9", "c", "1", "d", "6", "e", "f", "a", "d", "b", "d", "0">> @@
       <<"e", "c", "h", "o", " ", "'", "'", " ", "|", " ", "e", "c", "h", "o", " ", "9">>
         :> <<"2", "4", "6", "b", "a", "7", "a", "e", "4", "f", "b", "8", "c", "2", "4", "8", "6", "7", "a", "c", "1", "8", "5", "e", "a", "1", "d", "3", "8", "6", "3", "e", "e", "f", "a", "e", "6", "2", "7", "8">> @@
       <<"e", "c", "h", "o", " ", "'", "x", "'", " ", "|", " ", "'", "c", " ", "d", "'">>
         :> <<"e", "0", "1", "2", "5", "9", "3", "0", "4", "8", "1", "1", "f", "8", "b", "e", "8", "6", "e", "7", "0", "6", "e", "6", "2", "9", "5", "a", "3", "5", "a", "b", "3", "9", "f", "7", "a", "1", "5", "d">> @@
       <<"e", "c", "h", "o", " ", "'", "x", "'", " ", "|", " ", "'", "c", "'", "\\", "'", "'", "d", "'">>
         :> <<"3", "8", "5", "1", "d", "6", "d", "d", "3", "e", "c", "9", "d", "e", "8", "a", "9", "1", "0", "3", "0", "c", "2", "4", "c", "1", "6", "5", "b", "b", "6", "a", "8", "7", "5", "7", "4", "b", "a", "e">> @@
       <<"e", "c", "h", "o", " ", "'", "x", "'", " ", "|", " ", "c">>
         :> <<"8", "6", "b", "9", "b", "5", "6", "2", "a", "8", "8", "e", "7", "a", "a", "5", "7", "0", "7", "c", "0", "2", "b", "3", "f", "2", "9", "9", "c", "e", "8", "c", "1", "f", "6", "4", "0", "d", "9", "7">> @@
       <<"e", "c", "h", "o", " ", "'", "x", "'", " ", "|", " ", "c", " ", "d">>
         :> <<"0", "3", "7", "b", "5", "f", "4", "7", "7", "3", "9", "f", "d", "1", "5", "f", "9", "d", "0", "f", "6", "5", "0", "8", "8", "3", "b", "e", "9", "3", "7", "d", "d", "f", "8", "a", "e", "0", "b", "a">> @@
       <<"e", "c", "h", "o", " ", "'", "x", "'", " ", "|", " ", "d">>
         :> <<"9", "a", "5", "2", "d", "b", "d", "6", "8", "9", "a", "8", "1", "7", "9", "7", "5", "9", "5", "1", "0", "d", "f", "e", "d", "5", "e", "3", "f", "0", "4", "8", "b", "d", "7", "5", "e", "7", "8", "7">> @@
       <<"e", "c", "h", "o", " ", "'", "x", "'", " ", "|", " ", "e", "c", "h", "o", " ", "'", "x", "'", " ", "|", " ", "c">>
         :> <<"5", "2", "c", "f", "9", "8", "3", "c", "c", "7", "d", "0", "9", "2", "9", "1", "e", "1", "6", "4", "a", "c", "2", "1", "b", "a", "1", "3", "6", "f", "d", "a", "f", "d", "a", "f", "9", "5", "0", "5">> @@
       <<"e", "c", "h", "o", " ", "'", "x", "'", " ", "|", " ", "e", "c", "h", "o", " ", "1", "0">>
         :> <<"9", "7", "f", "0", "b", "b", "c", "b", "3", "2", "b", "6", "2", "0", "8", "0", "c", "3", "b", "2", "e", "1", "4", "f", "b", "3", "a", "5", "b", "d", "b", "7", "b", "9", "7", "6", "3", "c", "7", "5">> @@
       <<"e", "c", "h", "o", " ", "'", "x", "'", " ", "|", " ", "e", "c", "h", "o", " ", "9">>
         :> <<"2", "4", "6", "2", "8", "5", "a", "2", "0", "d", "e", "2", "9", "0", "f", "4", "9", "d", "5", "d", "f", "5", "9", "3", "4", "1", "0", "d", "b", "7", "7", "7", "a", "4", "8", "8", "e", "e", "2", "b">> @@
       <<"e", "c", "h", "o", " ", "'", "x", "'", "\\", "'", "'", "y", "'", " ", "|", " ", "'", "c", " ", "d", "'">>
         :> <<"d", "8", "5", "7", "7", "b", "a", "8", "0", "e", "7", "3", "f", "6", "d", "7", "8", "5", "0", "a", "6", "8", "2", "c", "b", "1", "1", "0", "d", "7", "2", "d", "a", "0", "b", "0", "a", "0", "2", "3">> @@
       <<"e", "c", "h", "o", " ", "'", "x", "'", "\\", "'", "'", "y", "'", " ", "|", " ", "'", "c", "'", "\\", "'", "'", "d", "'">>
         :> <<"0", "0", "8", "a", "e", "d", "e", "2", "3", "e", "5", "6", "a", "a", "b", "b", "f", "f", "9", "e", "8", "7", "e", "d", "a", "3", "6", "3", "9", "0", "3", "3", "3", "7", "f", "a", "c", "b", "5", "d">> @@
       <<"e", "c", "h", "o", " ", "'", "x", "'", "\\", "'", "'", "y", "'", " ", "|", " ", "c">>
         :> <<"e", "f", "7", "1", "b", "3", "5", "7", "2", "9", "7", "1", "3", "2", "3", "5", "0", "8", "2", "b", "0", "0", "8", "3", "9", "6", "a", "7", "7", "a", "b", "c", "5", "a", "b", "2", "6", "9", "6", "c">> @@
       <<"e", "c", "h", "o", " ", "'", "x", "'", "\\", "'", "'", "y", "'", " ", "|", " ", "c", " ", "d">>
         :> <<"1", "3", "4", "c", "5", "1", "8", "2", "d", "b", "6", "a", "b", "9", "4", "a", "9", "b", "d", "8", "e", "1", "d", "2", "7", "8", "a", "0", "6", "3", "0", "9", "c", "9", "1", "d", "e", "d", "0", "2">> @@
       <<"e", "c", "h", "o", " ", "'", "x", "'", "\\", "'", "'", "y", "'", " ", "|", " ", "d">>
         :> <<"9", "4", "d", "e", "6", "c", "8", "2", "9", "8", "f", "f", "4", "7", "f", "8", "c", "3", "7", "b", "2", "2", "5", "5", "c", "c", "3", "5", "2", "1", "d", "7", "2", "f", "2", "0", "f", "9", "e", "7">> @@
       <<"e", "c", "h", "o", " ", "'", "x", "'", "\\", "'", "'", "y", "'", " ", "|", " ", "e", "c", "h", "o", " ", "'", "x", "'", " ", "|", " ", "c">>
         :> <<"2", "0", "a", "7", "d", "b", "b", "c", "c", "e", "a", "7", "e", "3", "d", "3", "4", "c", "d", "0", "0", "0", "e", "2", "2", "d", "9", "c", "9", "5", "6", "3", "e", "d", "7", "8", "a", "e", "1", "8">> @@
       <<"e", "c", "h", "o", " ", "'", "x", "'", "\\", "'", "'", "y", "'", " ", "|", " ", "e", "c", "h", "o", " ", "1", "0">>
         :> <<"4", "0", "4", "b", "a", "f", "0", "9", "2", "b", "3", "d", "0", "d", "8", "5", "b", "0", "8", "3", "1", "d", "5", "c", "3", "a", "5", "a", "0", "7", "9", "5", "c", "8", "6", "6", "a", "1", "1", "0">> @@
       <<"e", "c", "h", "o", " ", "'", "x", "'", "\\", "'", "'", "y", "'", " ", "|", " ", "e", "c", "h", "o", " ", "9">>
         :> <<"0", "7", "0", "9", "9", "5", "b", "3", "3", "7", "c", "3", "3", "4", "b", "7", "0", "a", "9", "1", "a", "4", "4", "e", "1", "0", "9", "1", "4", "3", "2", "8", "a", "3", "a", "8", "9", "5", "4", "e">> @@
       <<"e", "c", "h", "o", " ", "'", "y", "'", " ", "|", " ", "'", "c", " ", "d", "'">>
         :> <<"2", "1", "e", "4", "7", "d", "6", "1", "e", "7", "0", "3", "5", "a", "c", "1", "8", "1", "8", "5", "c", "d", "a", "0", "b", "1", "a", "c", "c", "a", "5", "c", "f", "4", "5", "c", "9", "3", "f", "1">> @@
       <<"e", "c", "h", "o", " ", "'", "y", "'", " ", "|", " ", "'", "c", "'", "\\", "'", "'", "d", "'">>
         :> <<"b", "3", "1", "3", "c", "2", "f", "1", "e", "c", "c", "2", "0", "a", "8", "b", "2", "c", "b", "3", "9", "1", "0", "b", "9", "f", "5", "0", "e", "d", "5", "d", "7", "1", "d", "8", "b", "0", "6", "2">> @@
       <<"e", "c", "h", "o", " ", "'", "y", "'", " ", "|", " ", "c">>
         :> <<"a", "1", "6", "f", "0", "8", "8", "1", "8", "d", "8", "b", "5", "8", "e", "4", "0", "b", "8", "b", "f", "4", "a", "0", "9", "f", "c", "c", "e", "1", "3", "f", "3", "e", "b", "d", "0", "8", "5", "2">> @@
       <<"e", "c", "h", "o", " ", "'", "y", "'", " ", "|", " ", "c", " ", "d">>
         :> <<"4", "8", "3", "6", "0", "f", "d", "3", "d", "0", "0", "f", "9", "d", "a", "a", "5", "1", "1", "d", "9", "f", "3", "8", "3", "0", "d", "3", "a", "e", "2", "2", "8", "c", "f", "4", "0", "3", "9", "3">> @@
       <<"e", "c", "h", "o", " ", "'", "y", "'", " ", "|", " ", "d">>
         :> <<"5", "1", "c", "f", "8", "b", "0", "f", "5", "4", "0", "7", "7", "c", "b", "1", "f", "c", "0", "a", "2", "5", "d", "9", "f", "4", "3", "7", "1", "b", "e", "7", "a", "2", "6", "6", "6", "5", "5", "6">> @@
       <<"e", "c", "h", "o", " ", "'", "y", "'", " ", "|", " ", "e", "c", "h", "o", " ", "'", "x", "'", " ", "|", " ", "c">>
         :> <<"2", "6", "5", "a", "b", "f", "9", "f", "d", "8", "d", "f", "1", "7", "b", "b", "b", "b", "0", "f", "c", "e", "b", "f", "6", "f", "d", "e", "d", "5", "4", "0", "b", "5", "0", "5", "9", "0", "a", "5">> @@
       <<"e", "c", "h", "o", " ", "'", "y", "'", " ", "|", " ", "e", "c", "h", "o", " ", "1", "0">>
         :> <<"4", "7", "0", "9", "0", "c", "d", "6", "6", "c", "1", "a", "1", "5", "9", "1", "9", "3", "1", "4", "9", "1", "c", "5", "e", "7", "a", "2", "a", "9", "6", "c", "c", "8", "d", "d", "4", "7", "d", "0">> @@
       <<"e", "c", "h", "o", " ", "'", "y", "'", " ", "|", " ", "e", "c", "h", "o", " ", "9">>
         :> <<"5", "4", "a", "e", "2", "4", "2", "2", "3", "2", "e", "0", "9", "8", "e", "e", "0", "d", "f", "e", "9", "5", "0", "4", "5", "c", "9", "f", "c", "4", "8", "5", "4", "2", "d", "9", "a", "7", "c", "1">> @@
       <<"e", "c", "h", "o", " ", "1", "0">>
         :> <<"0", "3", "6", "4", "b", "a", "6", "6", "5", "5", "3", "2", "0", "7", "b", "a", "9", "9", "5", "4", "5", "7", "2", "0", "7", "5", "8", "b", "c", "3", "4", "8", "8", "e", "d", "1", "0", "6", "8", "0">> @@
       <<"e", "c", "h", "o", " ", "9">>
         :> <<"0", "3", "2", "3", "6", "e", "a", "d", "2", "7", "8", "4", "c", "c", "c", "6", "e", "c", "4", "3", "f", "3", "b", "f", "1", "b", "2", "0", "6", "d", "1", "1", "3", "5", "3", "9", "8", "c", "3", "8">>

Sha1(r) == Sha1Table[r]

\* _hash: the (hash, reverse) pair
Hash(sh, inputstr) ==
    LET r == Reverse(sh, inputstr) IN [h |-> Sha1(r), r |-> r]

CLICACHE_DIR == <<"~", "/", ".", "c", "l", "i", "c", "a", "c", "h", "e">>

\* _hash2dir: os.path.join(CLICACHE_DIR, h[:2], h[2:4], h)
Hash2Dir(h) == <<CLICACHE_DIR, SubSeq(h, 1, 2), SubSeq(h, 3, 4), h>>

\* the directories os.makedirs(basedir) leaves in place
PathPrefixes(path) == {SubSeq(path, 1, n) : n \in 1..Len(path)}

(***************************************************************************)
(* Conversions between numbers and their stored text.                      *)
(***************************************************************************)
DigitChar == <<"0", "1", "2", "3", "4", "5", "6", "7", "8", "9">>

IsDigit(c) == \E d \in 1..10 : DigitChar[d] = c

DigitVal(c) == (CHOOSE d \in 1..10 : DigitChar[d] = c) - 1

AllDigits(s) == Len(s) > 0 /\ \A j \in 1..Len(s) : IsDigit(s[j])

RECURSIVE NatStr(_)
NatStr(n) ==
    IF n < 10 THEN <<DigitChar[n + 1]>>
    ELSE NatStr(n \div 10) \o <<DigitChar[(n % 10) + 1]>>

RECURSIVE StrNat(_)
StrNat(s) ==
    IF s = <<>> THEN 0
    ELSE 10 * StrNat(SubSeq(s, 1, Len(s) - 1)) + DigitVal(s[Len(s)])

\* a return code written without its sign
FmtIntUnsigned(n) == IF n < 0 THEN NatStr(0 - n) ELSE NatStr(n)

\* '%d' % returncode
FmtInt(n) == IF n < 0 THEN <<"-">> \o NatStr(0 - n) ELSE NatStr(n)

\* int(text): an optional sign and decimal digits; anything else is a ValueError
ParseInt(s) ==
    LET signed == Len(s) > 0 /\ s[1] \in {"-", "+"}
        body   == IF signed THEN Tail(s) ELSE s
    IN  IF AllDigits(body)
        THEN [ok |-> TRUE,
              v  |-> IF signed /\ s[1] = "-" THEN 0 - StrNat(body) ELSE StrNat(body)]
        ELSE [ok |-> FALSE, v |-> 0]

\* the clock counts microseconds, the resolution '%.6f' keeps
Micro == 1000000

RECURSIVE ZeroPad(_, _)
ZeroPad(s, width) == IF Len(s) >= width THEN s ELSE ZeroPad(<<"0">> \o s, width)

\* '%.6f' % time.time()
FmtTime(us) == NatStr(us \div Micro) \o <<".">> \o ZeroPad(NatStr(us % Micro), 6)

RECURSIVE PadRight(_, _)
PadRight(s, width) == IF Len(s) >= width THEN SubSeq(s, 1, width) ELSE PadRight(s \o <<"0">>, width)

\* float(text): digits, a point, digits; anything else is a ValueError
ParseFloat(s) ==
    LET dots == {j \in 1..Len(s) : s[j] = "."}
        dot  == IF dots = {} THEN Len(s) + 1 ELSE CHOOSE j \in dots : \A q \in dots : j <= q
        ip   == SubSeq(s, 1, dot - 1)
        fp   == SubSeq(s, dot + 1, Len(s))
    IN  IF /\ Cardinality(dots) <= 1
           /\ ip \o fp # <<>>
           /\ \A j \in 1..Len(ip) : IsDigit(ip[j])
           /\ \A j \in 1..Len(fp) : IsDigit(fp[j])
        THEN [ok |-> TRUE, v |-> StrNat(ip) * Micro + StrNat(PadRight(fp, 6))]
        ELSE [ok |-> FALSE, v |-> 0]

(***************************************************************************)
(* Bounds and the inputs of the calls.                                     *)
(***************************************************************************)
NProcs == 2        \* processes sharing the cache directory
MaxEntries == 2    \* writes in one run, when the processes also read
MaxWrites == 3     \* writes in one run of writers alone
MaxTime == 1       \* the last clock value, in microseconds

Procs == 1..NProcs

\* sys.maxint, on a build with 32-bit C longs
SysMaxInt == 2147483647

\* settings.CLICACHE_MAX_RETRIES
CLICACHE_MAX_RETRIES == 10

FNAME_t == "t"
FNAME_r == "r"
FNAME_stdout == "stdout"
FNAME_stderr == "stderr"
FNAME_returncode == "returncode"

\* the order in which _cache writes, and _cached_runsh opens, the files
FieldOrder == <<FNAME_t, FNAME_r, FNAME_stdout, FNAME_stderr, FNAME_returncode>>
Fields == {FieldOrder[j] : j \in 1..Len(FieldOrder)}

\* the command the processes run: all calls contend for one key
RunArgs == {[sh |-> ShStr(<<"e", "c", "h", "o", " ", "9">>), inputstr |-> NoInput]}

Hashes == {Hash(a.sh, a.inputstr).h : a \in RunArgs}

\* what the Executor may return: (stdout, stderr, returncode)
NoResult == [stdout |-> <<>>, stderr |-> <<>>, returncode |-> 0]
Results == {[stdout |-> <<"f", "o", "o", "\n">>, stderr |-> <<>>, returncode |-> 0],
            [stdout |-> <<>>, stderr |-> <<"e">>, returncode |-> -15]}

\* the maxage arguments tried: the default, -1 second, and no age at all
MaxAges == {0 - Micro, 0}

(***************************************************************************)
(* State.                                                                  *)
(***************************************************************************)
VARIABLES
    now,      \* time.time(), in microseconds
    dirs,     \* the directories that exist above the entries
    ent,      \* the entries ever created, by identifier (creation order)
    tmp,      \* identifiers whose `current.<id>` symlink exists
    current,  \* per shard path, the target of `current` (0: no symlink)
    lastren,  \* per shard path, the entry of the latest rename onto `current`
    proc,     \* per process, its call and the position in it
    nwrites,  \* calls of _cache begun
    limit,    \* the writes this run may begin
    track,    \* whether the bookkeeping below is kept
    last,     \* per key, the runsh calls completed since the shard last changed
    hq,       \* key derivation: the two (command, input) pairs under study
    hres      \* key derivation: their (hash, reverse) pairs

vars == <<now, dirs, ent, tmp, current, lastren, proc, nwrites, limit, track, last, hq, hres>>

BaseDirs == {Hash2Dir(h) : h \in Hashes}

Idle == [pc |-> "idle", fn |-> None, h |-> <<>>, r |-> <<>>, maxage |-> 0,
         rmaxage |-> 0, phase |-> 0, t |-> 0, res |-> NoResult, id |-> 0, k |-> 0,
         old |-> 0, rm |-> <<>>, canonical |-> 0, i |-> 0, nopen |-> 0, tnow |-> 0,
         out |-> None, ret |-> NoResult,
         had |-> FALSE, age1 |-> None, clean |-> FALSE, prev |-> {},
         sawbad |-> FALSE, eexist |-> {}]

NoLast == {}

InitCache ==
    /\ now = 0
    /\ dirs = {}
    /\ ent = <<>>
    /\ tmp = {}
    /\ current = [b \in BaseDirs |-> 0]
    /\ lastren = [b \in BaseDirs |-> 0]
    /\ proc = [p \in Procs |-> Idle]
    /\ nwrites = 0
    /\ last = [h \in Hashes |-> NoLast]

Init ==
    /\ InitCache
    /\ limit = MaxEntries
    /\ track = FALSE
    /\ hq = <<>>
    /\ hres = <<>>

Ids == 1..Len(ent)

\* a file of an entry can be opened: the directory and the name are there
Linked(e, f) == ent[e].exists /\ f \in ent[e].names

\* every file of the entry has been written and closed
Complete(e) == ent[e].closed = Fields

IsCacheMiss(out) == out \in {"no entry in cache", "cache entry is too old"}

(***************************************************************************)
(* Bookkeeping for the claims, kept when `track` holds; no step of the     *)
(* program reads it.  last[h] holds, for each runsh that completed since   *)
(* the last change of h's shard, what it returned, its maxage, and whether *)
(* no other process changed the shard during that call.  Of a process      *)
(* record, clean says that no other process changed the shard since the    *)
(* call began, and prev is last[h] as the call began, emptied when another *)
(* process changes the shard.                                              *)
(***************************************************************************)
\* `last` once p's next record is s
LastAfter(s) ==
    IF track /\ s.pc = "done" /\ s.fn = "runsh" /\ s.out = "hit"
    THEN [last EXCEPT ![s.h] = @ \cup {[ret |-> s.ret, maxage |-> s.maxage,
                                         clean |-> s.clean]}]
    ELSE last

\* a step of p that changes nothing on disk; s is p's next record
Step(p, s) ==
    /\ proc' = [proc EXCEPT ![p] = s]
    /\ last' = LastAfter(s)

\* a step of p that changes the shard of key h on disk
WStep(p, s, h) ==
    /\ proc' = [q \in Procs |->
                  IF q = p THEN s
                  ELSE IF proc[q].pc \notin {"idle", "done"} /\ proc[q].h = h
                       THEN [proc[q] EXCEPT !.clean = FALSE, !.prev = {}]
                       ELSE proc[q]]
    /\ last' = [last EXCEPT ![h] = NoLast]

\* the maxage arguments of runsh: where repeated calls are compared, all calls
\* use the one maxage under which an entry is fresh at first and stale later
RunshAges == IF track THEN {0} ELSE MaxAges

(***************************************************************************)
(* The calls a process makes.                                              *)
(***************************************************************************)
\* runsh(sh, inputstr, maxage): line 232, h, r = _hash(sh, inputstr)
CallRunsh(p) ==
    /\ proc[p].pc = "idle"
    /\ \E a \in RunArgs, m \in RunshAges :
         LET hr == Hash(a.sh, a.inputstr)
         IN  Step(p, [Idle EXCEPT !.pc = "r_link", !.fn = "runsh", !.h = hr.h,
                                  !.r = hr.r, !.maxage = m, !.rmaxage = m,
                                  !.phase = 1, !.clean = track, !.prev = last[hr.h]])
    /\ UNCHANGED <<now, dirs, ent, tmp, current, lastren, nwrites, limit, track, hq, hres>>

\* _cache(h, r, t, stdout, stderr, returncode), called directly
CallCache(p) ==
    /\ proc[p].pc = "idle"
    /\ nwrites < limit
    /\ \E a \in RunArgs, t \in 0..now, res \in Results :
         LET hr == Hash(a.sh, a.inputstr)
         IN  Step(p, [Idle EXCEPT !.pc = "w_makedirs", !.fn = "_cache", !.h = hr.h,
                                  !.r = hr.r, !.t = t, !.res = res, !.clean = track])
    /\ nwrites' = nwrites + 1
    /\ UNCHANGED <<now, dirs, ent, tmp, current, lastren, limit, track, hq, hres>>

\* _cached_runsh(h, maxage), called directly
CallCachedRunsh(p) ==
    /\ proc[p].pc = "idle"
    /\ \E h \in Hashes, m \in MaxAges :
         Step(p, [Idle EXCEPT !.pc = "r_link", !.fn = "_cached_runsh", !.h = h,
                              !.maxage = m, !.rmaxage = m, !.clean = track,
                              !.had = (current[Hash2Dir(h)] # 0)])
    /\ UNCHANGED <<now, dirs, ent, tmp, current, lastren, nwrites, limit, track, hq, hres>>

\* the caller has the result (or the exception) and may call again
Return(p) ==
    /\ proc[p].pc = "done"
    /\ proc' = [proc EXCEPT ![p] = Idle]
    /\ UNCHANGED <<now, dirs, ent, tmp, current, lastren, nwrites, limit, track, last, hq, hres>>

\* the clock advances
Tick ==
    /\ now < MaxTime
    /\ now' = now + 1
    /\ UNCHANGED <<dirs, ent, tmp, current, lastren, proc, nwrites, limit, track, last, hq, hres>>
(***************************************************************************)
(* The writer, _cache (lines 83-143).                                      *)
(***************************************************************************)
BaseDir(s) == Hash2Dir(s.h)

\* the timestamp line 111 stores: time.time() at the write, whatever t is
Timestamp(t, clock) == clock

\* what _cache writes into each file (lines 111-115)
Content(s, f, clock) ==
    CASE f = FNAME_t          -> FmtTime(Timestamp(s.t, clock))
      [] f = FNAME_r          -> s.r
      [] f = FNAME_stdout     -> s.res.stdout
      [] f = FNAME_stderr     -> s.res.stderr
      [] f = FNAME_returncode -> FmtInt(s.res.returncode)

\* a second read that keeps the caller's maxage
SecondMaxAgeSame(maxage) == maxage

\* the max age of runsh's read after its write (line 247)
SecondMaxAge(maxage) == SysMaxInt

\* _cache returns: to its caller, or into the second read of runsh
AfterCache(s) ==
    IF s.fn = "_cache"
    THEN [s EXCEPT !.pc = "done", !.out = "stored", !.rm = <<>>, !.k = 0]
    ELSE [s EXCEPT !.pc = "r_link", !.phase = 2, !.rmaxage = SecondMaxAge(s.maxage),
                   !.rm = <<>>, !.k = 0, !.t = 0, !.res = NoResult]

\* lines 95-98: os.makedirs(basedir), EEXIST absorbed
WMakedirs(p) ==
    LET s == proc[p] IN
    /\ s.pc = "w_makedirs"
    /\ dirs' = dirs \cup PathPrefixes(BaseDir(s))
    /\ WStep(p, [s EXCEPT !.pc = "w_mkdir"], s.h)
    /\ UNCHANGED <<now, ent, tmp, current, lastren, nwrites, limit, track, hq, hres>>

\* a writer that names its directory after the key, not after a fresh uuid:
\* it writes into the directory that is current
WMkdirReuse(p) ==
    LET s == proc[p]
        c == current[BaseDir(s)]
    IN
    /\ s.pc = "w_mkdir"
    /\ ent' = IF c # 0 THEN ent
              ELSE Append(ent, [h |-> s.h, exists |-> TRUE, names |-> {}, closed |-> {},
                                data |-> [f \in Fields |-> <<>>],
                                arg |-> [t |-> s.t, res |-> s.res], promoted |-> 0])
    /\ WStep(p, [s EXCEPT !.pc = "w_write", !.k = 1,
                          !.id = IF c # 0 THEN c ELSE Len(ent) + 1], s.h)
    /\ UNCHANGED <<now, dirs, tmp, current, lastren, nwrites, limit, track, hq, hres>>

\* lines 103-109: a fresh uuid, os.mkdir(new_canonical)
WMkdir(p) ==
    LET s == proc[p] IN
    /\ s.pc = "w_mkdir"
    /\ ent' = Append(ent, [h |-> s.h, exists |-> TRUE, names |-> {}, closed |-> {},
                           data |-> [f \in Fields |-> <<>>],
                           arg |-> [t |-> s.t, res |-> s.res], promoted |-> 0])
    /\ WStep(p, [s EXCEPT !.pc = "w_write", !.id = Len(ent) + 1, !.k = 1], s.h)
    /\ UNCHANGED <<now, dirs, tmp, current, lastren, nwrites, limit, track, hq, hres>>

\* a writer that links its entry before the return code is written
AllWrittenEarly(k) == k = Len(FieldOrder) - 1

\* the file just written was the last of the five: line 115 is behind
AllWritten(k) == k = Len(FieldOrder)

\* lines 111-115, one line each: open(path, 'w').write(...), the file closed
\* when the file object is dropped at the end of the statement
WWrite(p) ==
    LET s == proc[p]
        f == FieldOrder[s.k]
    IN
    /\ s.pc = "w_write"
    /\ ent' = [ent EXCEPT ![s.id].names = @ \cup {f},
                          ![s.id].data[f] = Content(s, f, now),
                          ![s.id].closed = @ \cup {f}]
    /\ WStep(p, IF AllWritten(s.k)
                THEN [s EXCEPT !.pc = "w_symlink", !.k = 0]
                ELSE [s EXCEPT !.k = s.k + 1], s.h)
    /\ UNCHANGED <<now, dirs, tmp, current, lastren, nwrites, limit, track, hq, hres>>

\* lines 123-124: os.symlink(id, basedir/current.<id>)
WSymlink(p) ==
    LET s == proc[p] IN
    /\ s.pc = "w_symlink"
    /\ tmp' = tmp \cup {s.id}
    /\ WStep(p, [s EXCEPT !.pc = "w_readlink"], s.h)
    /\ UNCHANGED <<now, dirs, ent, current, lastren, nwrites, limit, track, hq, hres>>

\* a writer that reads `current` after its rename: it finds its own entry
WReadlinkLate(p) ==
    LET s == proc[p] IN
    /\ s.pc = "w_readlink"
    /\ Step(p, [s EXCEPT !.pc = "w_rename", !.old = s.id])
    /\ UNCHANGED <<now, dirs, ent, tmp, current, lastren, nwrites, limit, track, hq, hres>>

\* lines 127-135: old_canonical, None when there is no `current`
WReadlink(p) ==
    LET s == proc[p] IN
    /\ s.pc = "w_readlink"
    /\ Step(p, [s EXCEPT !.pc = "w_rename", !.old = current[BaseDir(s)]])
    /\ UNCHANGED <<now, dirs, ent, tmp, current, lastren, nwrites, limit, track, hq, hres>>

\* a rename that leaves an existing `current` in place
RenamedKeep(target, id) == IF target = 0 THEN id ELSE target

\* what `current` names after os.rename onto it: rename replaces the old link
Renamed(target, id) == id

\* line 139: os.rename(tmp_symlink, basedir/current); line 142
WRename(p) ==
    LET s == proc[p] IN
    /\ s.pc = "w_rename"
    /\ current' = [current EXCEPT ![BaseDir(s)] = Renamed(@, s.id)]
    /\ lastren' = [lastren EXCEPT ![BaseDir(s)] = s.id]
    /\ tmp' = tmp \ {s.id}
    /\ ent' = [ent EXCEPT ![s.id].promoted = @ + 1]
    /\ WStep(p, IF s.old = 0 THEN AfterCache(s) ELSE [s EXCEPT !.pc = "w_listdir"], s.h)
    /\ UNCHANGED <<now, dirs, nwrites, limit, track, hq, hres>>

\* the orders in which os.listdir may give the names of an entry
ListOrders == {FieldOrder, [j \in 1..Len(FieldOrder) |-> FieldOrder[Len(FieldOrder) + 1 - j]]}

\* the names of a listing that are in the directory, in the listing's order
RECURSIVE Present(_, _)
Present(order, names) ==
    IF order = <<>> THEN <<>>
    ELSE (IF Head(order) \in names THEN <<Head(order)>> ELSE <<>>)
         \o Present(Tail(order), names)

\* a cleanup that removes what `current` names when the cleanup starts
WListdirOfCurrent(p) ==
    LET s == proc[p]
        c == current[BaseDir(s)]
    IN
    /\ s.pc = "w_listdir"
    /\ \E order \in ListOrders :
         LET rm == IF ent[c].exists THEN Present(order, ent[c].names) ELSE <<>>
         IN  Step(p, [s EXCEPT !.pc = IF rm = <<>> THEN "w_rmdir" ELSE "w_unlink",
                               !.rm = rm, !.old = c])
    /\ UNCHANGED <<now, dirs, ent, tmp, current, lastren, nwrites, limit, track, hq, hres>>

\* line 143, shutil.rmtree: os.listdir(old_canonical); an error leaves no names
WListdir(p) ==
    LET s == proc[p] IN
    /\ s.pc = "w_listdir"
    /\ \E order \in ListOrders :
         LET rm == IF ent[s.old].exists THEN Present(order, ent[s.old].names) ELSE <<>>
         IN  Step(p, [s EXCEPT !.pc = IF rm = <<>> THEN "w_rmdir" ELSE "w_unlink",
                               !.rm = rm])
    /\ UNCHANGED <<now, dirs, ent, tmp, current, lastren, nwrites, limit, track, hq, hres>>

\* a cleanup whose failed os.remove is raised (rmtree without ignore_errors)
WUnlinkRaises(p) ==
    LET s    == proc[p]
        f    == Head(s.rm)
        rest == Tail(s.rm)
        nxt  == [s EXCEPT !.rm = rest, !.pc = IF rest = <<>> THEN "w_rmdir" ELSE "w_unlink"]
    IN
    /\ s.pc = "w_unlink"
    /\ IF Linked(s.old, f)
       THEN /\ ent' = [ent EXCEPT ![s.old].names = @ \ {f}]
            /\ WStep(p, nxt, s.h)
       ELSE /\ ent' = ent
            /\ Step(p, [s EXCEPT !.pc = "done", !.out = "OSError", !.rm = <<>>])
    /\ UNCHANGED <<now, dirs, tmp, current, lastren, nwrites, limit, track, hq, hres>>

\* line 143, shutil.rmtree: os.remove of the next listed name, errors ignored
WUnlink(p) ==
    LET s    == proc[p]
        f    == Head(s.rm)
        rest == Tail(s.rm)
        nxt  == [s EXCEPT !.rm = rest, !.pc = IF rest = <<>> THEN "w_rmdir" ELSE "w_unlink"]
    IN
    /\ s.pc = "w_unlink"
    /\ IF Linked(s.old, f)
       THEN /\ ent' = [ent EXCEPT ![s.old].names = @ \ {f}]
            /\ WStep(p, nxt, s.h)
       ELSE /\ ent' = ent
            /\ Step(p, nxt)
    /\ UNCHANGED <<now, dirs, tmp, current, lastren, nwrites, limit, track, hq, hres>>

\* a cleanup that removes the files of the old entry but not its directory
WRmdirKeeps(p) ==
    LET s == proc[p] IN
    /\ s.pc = "w_rmdir"
    /\ Step(p, AfterCache(s))
    /\ UNCHANGED <<now, dirs, ent, tmp, current, lastren, nwrites, limit, track, hq, hres>>

\* line 143, shutil.rmtree: os.rmdir(old_canonical), errors ignored
WRmdir(p) ==
    LET s == proc[p] IN
    /\ s.pc = "w_rmdir"
    /\ IF ent[s.old].exists /\ ent[s.old].names = {}
       THEN /\ ent' = [ent EXCEPT ![s.old].exists = FALSE]
            /\ WStep(p, AfterCache(s), s.h)
       ELSE /\ ent' = ent
            /\ Step(p, AfterCache(s))
    /\ UNCHANGED <<now, dirs, tmp, current, lastren, nwrites, limit, track, hq, hres>>

(***************************************************************************)
(* The reader, _cached_runsh (lines 145-226), and runsh (lines 231-247).   *)
(***************************************************************************)
\* an age equal to maxage already counted as too old
TooOldAtEqual(elapsed, maxage) == elapsed >= maxage

\* line 204: time.time() - t > maxage
TooOld(elapsed, maxage) == elapsed > maxage

\* a runsh whose first read does not return its hit (line 235 without `return`)
ReadEndsNoReturn(s, out) ==
    IF (IsCacheMiss(out) \/ out = "hit") /\ s.fn = "runsh" /\ s.phase = 1
    THEN [s EXCEPT !.pc = "exec"]
    ELSE [s EXCEPT !.pc = "done", !.out = out, !.nopen = 0]

\* how a read ends.  A CacheMiss of runsh's first read is caught at line 236;
\* everything else reaches the caller of the outermost call.
ReadEnds(s, out) ==
    IF IsCacheMiss(out) /\ s.fn = "runsh" /\ s.phase = 1
    THEN [s EXCEPT !.pc = "exec"]
    ELSE [s EXCEPT !.pc = "done", !.out = out, !.nopen = 0]

\* lines 185-189: the handler re-raises, `finally` counts the attempt
OpenFailed(s) == ReadEnds([s EXCEPT !.i = s.i + 1], "IOError")

\* the stored timestamp or return code of the entry does not parse
Corrupted(e) ==
    \/ ~ParseFloat(ent[e].data[FNAME_t]).ok
    \/ ~ParseInt(ent[e].data[FNAME_returncode]).ok

\* lines 153-174: os.readlink(current); ENOENT is a CacheMiss
RLink(p) ==
    LET s == proc[p]
        c == current[BaseDir(s)]
    IN
    /\ s.pc = "r_link"
    /\ Step(p, IF c = 0 THEN ReadEnds(s, "no entry in cache")
               ELSE IF ~(0 < CLICACHE_MAX_RETRIES)
                    THEN ReadEnds([s EXCEPT !.canonical = c], "unable to get a handle")
                    ELSE [s EXCEPT !.pc = "r_open", !.canonical = c, !.i = 0,
                                   !.nopen = 0, !.sawbad = Corrupted(c)])
    /\ UNCHANGED <<now, dirs, ent, tmp, current, lastren, nwrites, limit, track, hq, hres>>

\* lines 177-189: the next open(); after the fifth, good = True and break
ROpen(p) ==
    LET s == proc[p]
        f == FieldOrder[s.nopen + 1]
    IN
    /\ s.pc = "r_open"
    /\ Step(p, IF Linked(s.canonical, f)
               THEN IF s.nopen + 1 = Len(FieldOrder)
                    THEN [s EXCEPT !.pc = "r_age", !.nopen = s.nopen + 1, !.i = s.i + 1]
                    ELSE [s EXCEPT !.nopen = s.nopen + 1]
               ELSE OpenFailed(s))
    /\ UNCHANGED <<now, dirs, ent, tmp, current, lastren, nwrites, limit, track, hq, hres>>

\* a reader that evicts the entry it finds too old
RAgePurge(p) ==
    LET s  == proc[p]
        pf == ParseFloat(ent[s.canonical].data[FNAME_t])
        s1 == [s EXCEPT !.tnow = now]
    IN
    /\ s.pc = "r_age"
    /\ Step(p, IF ~pf.ok THEN ReadEnds(s, "unexpected timestamp value")
               ELSE IF TooOld(now - pf.v, s.rmaxage)
                    THEN ReadEnds(s1, "cache entry is too old")
                    ELSE [s1 EXCEPT !.pc = "r_ret"])
    /\ current' = IF pf.ok /\ TooOld(now - pf.v, s.rmaxage)
                  THEN [current EXCEPT ![BaseDir(s)] = 0]
                  ELSE current
    /\ UNCHANGED <<now, dirs, ent, tmp, lastren, nwrites, limit, track, hq, hres>>

\* lines 197-207: parse the timestamp, compare the age with maxage
RAge(p) ==
    LET s  == proc[p]
        pf == ParseFloat(ent[s.canonical].data[FNAME_t])
        s1 == [s EXCEPT !.tnow = now,
                        !.age1 = IF track /\ s.phase = 1
                                 THEN (IF now - pf.v <= s.maxage THEN "fresh" ELSE "stale")
                                 ELSE @]
    IN
    /\ s.pc = "r_age"
    /\ Step(p, IF ~pf.ok THEN ReadEnds(s, "unexpected timestamp value")
               ELSE IF TooOld(now - pf.v, s.rmaxage)
                    THEN ReadEnds(s1, "cache entry is too old")
                    ELSE [s1 EXCEPT !.pc = "r_ret"])
    /\ UNCHANGED <<now, dirs, ent, tmp, current, lastren, nwrites, limit, track, hq, hres>>

\* a reader that reads the return code through `current`, not through the
\* handle it opened
RRetViaCurrent(p) ==
    LET s  == proc[p]
        d  == ent[s.canonical].data
        c  == current[BaseDir(s)]
        rc == ParseInt(ent[c].data[FNAME_returncode])
    IN
    /\ s.pc = "r_ret"
    /\ Step(p, IF ~rc.ok THEN ReadEnds(s, "unexpected returncode value")
               ELSE [ReadEnds(s, "hit") EXCEPT
                       !.ret = [stdout |-> d[FNAME_stdout], stderr |-> d[FNAME_stderr],
                                returncode |-> rc.v]])
    /\ UNCHANGED <<now, dirs, ent, tmp, current, lastren, nwrites, limit, track, hq, hres>>

\* lines 212-226: read stdout and stderr, parse the return code, return
RRet(p) ==
    LET s  == proc[p]
        d  == ent[s.canonical].data
        rc == ParseInt(d[FNAME_returncode])
    IN
    /\ s.pc = "r_ret"
    /\ Step(p, IF ~rc.ok THEN ReadEnds(s, "unexpected returncode value")
               ELSE [ReadEnds(s, "hit") EXCEPT
                       !.ret = [stdout |-> d[FNAME_stdout], stderr |-> d[FNAME_stderr],
                                returncode |-> rc.v]])
    /\ UNCHANGED <<now, dirs, ent, tmp, current, lastren, nwrites, limit, track, hq, hres>>

\* lines 238-242: cli.runsh_t(sh, inputstr), t = time.time(), then _cache
Exec(p) ==
    LET s == proc[p] IN
    /\ s.pc = "exec"
    /\ nwrites < limit
    /\ \E res \in Results :
         Step(p, [s EXCEPT !.pc = "w_makedirs", !.res = res, !.t = now,
                           !.canonical = 0, !.i = 0, !.nopen = 0, !.tnow = 0,
                           !.sawbad = FALSE])
    /\ nwrites' = nwrites + 1
    /\ UNCHANGED <<now, dirs, ent, tmp, current, lastren, limit, track, hq, hres>>

\* damage from outside the program: a stored timestamp or return code of a
\* complete entry is overwritten with text that is no number
Garbage == <<"x">>

Corrupt ==
    /\ \E e \in Ids, f \in {FNAME_t, FNAME_returncode} :
         /\ Complete(e)
         /\ Linked(e, f)
         /\ ent[e].data[f] # Garbage
         /\ ent' = [ent EXCEPT ![e].data[f] = Garbage]
    /\ UNCHANGED <<now, dirs, tmp, current, lastren, proc, nwrites, limit, track, last, hq, hres>>

\* lines 92-139: write an entry and make it current
Promote(p) ==
    \/ WMakedirs(p) \/ WMkdir(p) \/ WWrite(p) \/ WSymlink(p) \/ WReadlink(p)
    \/ WRename(p)

\* lines 142-143: remove the entry that was current
Cleanup(p) == WListdir(p) \/ WUnlink(p) \/ WRmdir(p)

Writer(p) == Promote(p) \/ Cleanup(p)

Reader(p) == RLink(p) \/ ROpen(p) \/ RAge(p) \/ RRet(p)

Next ==
    \/ \E p \in Procs :
         \/ CallRunsh(p) \/ CallCache(p) \/ CallCachedRunsh(p) \/ Return(p)
         \/ Writer(p) \/ Reader(p) \/ Exec(p)
    \/ Tick

\* every call of the package, by any process, in any interleaving
Spec == Init /\ [][Next]_vars

\* writers alone: processes that call _cache, and more writes
InitWrite ==
    /\ InitCache
    /\ limit = MaxWrites
    /\ track = FALSE
    /\ hq = <<>>
    /\ hres = <<>>

NextWrite ==
    \/ \E p \in Procs : CallCache(p) \/ Return(p) \/ Writer(p)
    \/ Tick

SpecWrite == InitWrite /\ [][NextWrite]_vars

\* processes that call runsh, with the bookkeeping of what each call returned
InitRunsh ==
    /\ InitCache
    /\ limit = MaxEntries
    /\ track = TRUE
    /\ hq = <<>>
    /\ hres = <<>>

NextRunsh ==
    \/ \E p \in Procs : CallRunsh(p) \/ Return(p) \/ Writer(p) \/ Reader(p) \/ Exec(p)
    \/ Tick

SpecRunsh == InitRunsh /\ [][NextRunsh]_vars

\* direct writes and reads of a cache that may be damaged from outside
NextCorrupt ==
    \/ \E p \in Procs :
         CallCache(p) \/ CallCachedRunsh(p) \/ Return(p) \/ Promote(p) \/ Reader(p)
    \/ Tick
    \/ Corrupt

\* one write is enough to have an entry to damage; with no entry to replace,
\* the writer has nothing to remove
InitCorrupt ==
    /\ InitCache
    /\ limit = 1
    /\ track = FALSE
    /\ hq = <<>>
    /\ hres = <<>>

SpecCorrupt == InitCorrupt /\ [][NextCorrupt]_vars

(***************************************************************************)
(* Key derivation on its own: _hash applied to two (command, input) pairs. *)
(***************************************************************************)
\* _cache called while no other call is under way
CallCacheAlone(p) ==
    /\ \A q \in Procs \ {p} : proc[q].pc \in {"idle", "done"}
    /\ CallCache(p)

\* writes of one key that do not overlap
NextSeq ==
    \/ \E p \in Procs : CallCacheAlone(p) \/ Return(p) \/ Writer(p)
    \/ Tick

SpecSeq == InitWrite /\ [][NextSeq]_vars

(***************************************************************************)
(* os.makedirs(basedir), lines 92-98, level by level, for writers of two   *)
(* keys whose shard paths share their first levels.  makedirs(name) tests  *)
(* whether the parent of name exists, first calls itself on the parent if  *)
(* not, absorbing EEXIST from that call, and then calls mkdir(name).       *)
(* eexist records the levels at which a call's mkdir met EEXIST.           *)
(***************************************************************************)
ShardArgs == RunArgs \cup {[sh |-> ShStr(<<"e", "c", "h", "o", " ", "1", "0">>),
                            inputstr |-> NoInput]}

ShardHashes == {Hash(a.sh, a.inputstr).h : a \in ShardArgs}

ShardDirs == {Hash2Dir(h) : h \in ShardHashes}

\* the positions of the separators inside CLICACHE_DIR
RootCuts == {n \in 1..Len(CLICACHE_DIR) : CLICACHE_DIR[n] = "/"}

\* the number of directories CLICACHE_DIR itself names
RootDepth == Cardinality(RootCuts) + 1

\* the number of directories on the way to path, path included
NLevels(path) == RootDepth + Len(path) - 1

\* the j-th directory on the way to path, path itself being the last
Level(path, j) ==
    IF j < RootDepth
    THEN LET n == CHOOSE c \in RootCuts : Cardinality({m \in RootCuts : m < c}) = j - 1
         IN  <<SubSeq(CLICACHE_DIR, 1, n - 1)>>
    ELSE SubSeq(path, 1, j - RootDepth + 1)

\* _cache(h, r, t, stdout, stderr, returncode) for one of the two keys
CallCacheShard(p) ==
    /\ proc[p].pc = "idle"
    /\ nwrites < limit
    /\ \E a \in ShardArgs, res \in Results :
         LET hr == Hash(a.sh, a.inputstr)
         IN  Step(p, [Idle EXCEPT !.pc = "mk_exists", !.fn = "_cache", !.h = hr.h,
                                  !.r = hr.r, !.t = now, !.res = res,
                                  !.k = NLevels(Hash2Dir(hr.h))])
    /\ nwrites' = nwrites + 1
    /\ UNCHANGED <<now, dirs, ent, tmp, current, lastren, limit, track, hq, hres>>

\* makedirs: not path.exists(head), and the recursive call if so
MkExists(p) ==
    LET s == proc[p] IN
    /\ s.pc = "mk_exists"
    /\ Step(p, IF s.k = 1 \/ Level(BaseDir(s), s.k - 1) \in dirs
               THEN [s EXCEPT !.pc = "mk_mkdir"]
               ELSE [s EXCEPT !.k = s.k - 1])
    /\ UNCHANGED <<now, dirs, ent, tmp, current, lastren, nwrites, limit, track, hq, hres>>

\* os.makedirs has raised EEXIST to _cache, and _cache raises it on
MakedirsEexistRaised(s) ==
    [s EXCEPT !.pc = "done", !.out = "OSError", !.eexist = @ \cup {s.k}, !.k = 0]

\* lines 97-98: os.makedirs has raised EEXIST to _cache, which goes on
MakedirsEexist(s) ==
    [s EXCEPT !.pc = "w_mkdir", !.eexist = @ \cup {s.k}, !.k = 0]

\* makedirs: mkdir(name); EEXIST from a parent is absorbed by makedirs itself
MkMkdir(p) ==
    LET s == proc[p]
        n == NLevels(BaseDir(s))
        d == Level(BaseDir(s), s.k)
    IN
    /\ s.pc = "mk_mkdir"
    /\ IF d \in dirs
       THEN /\ dirs' = dirs
            /\ Step(p, IF s.k = n THEN MakedirsEexist(s)
                       ELSE [s EXCEPT !.k = s.k + 1, !.eexist = @ \cup {s.k}])
       ELSE /\ dirs' = dirs \cup {d}
            /\ WStep(p, IF s.k = n THEN [s EXCEPT !.pc = "w_mkdir", !.k = 0]
                        ELSE [s EXCEPT !.k = s.k + 1], s.h)
    /\ UNCHANGED <<now, ent, tmp, current, lastren, nwrites, limit, track, hq, hres>>

InitMkdirs ==
    /\ now = 0
    /\ dirs = {}
    /\ ent = <<>>
    /\ tmp = {}
    /\ current = [b \in ShardDirs |-> 0]
    /\ lastren = [b \in ShardDirs |-> 0]
    /\ proc = [p \in Procs |-> Idle]
    /\ nwrites = 0
    /\ last = [h \in ShardHashes |-> NoLast]
    /\ limit = MaxEntries
    /\ track = FALSE
    /\ hq = <<>>
    /\ hres = <<>>

NextMkdirs ==
    \E p \in Procs :
        \/ CallCacheShard(p) \/ MkExists(p) \/ MkMkdir(p)
        \/ WMkdir(p) \/ WWrite(p) \/ WSymlink(p) \/ WReadlink(p) \/ WRename(p)
        \/ Cleanup(p) \/ Return(p)

SpecMkdirs == InitMkdirs /\ [][NextMkdirs]_vars

HashCommands ==
    {ShStr(<<"c">>), ShStr(<<"d">>), ShStr(<<"c", " ", "d">>),
     ShStr(<<"e", "c", "h", "o", " ", "'", "x", "'", " ", "|", " ", "c">>),
     ShArgv(<< <<"c">> >>), ShArgv(<< <<"d">> >>), ShArgv(<< <<"c">>, <<"d">> >>),
     ShArgv(<< <<"c", " ", "d">> >>), ShArgv(<< <<"c", "'", "d">> >>)}

HashInputs == {NoInput, <<>>, <<"x">>, <<"y">>, <<"x", "'", "y">>}

HashArgs == [sh : HashCommands, inputstr : HashInputs]

InitHash ==
    /\ InitCache
    /\ limit = MaxEntries
    /\ track = FALSE
    /\ hq \in HashArgs \X HashArgs
    /\ hres = <<>>

\* lines 53-74, once for each pair
Derive ==
    /\ hres = <<>>
    /\ hres' = <<Hash(hq[1].sh, hq[1].inputstr), Hash(hq[2].sh, hq[2].inputstr)>>
    /\ UNCHANGED <<now, dirs, ent, tmp, current, lastren, proc, nwrites, limit, track,
                   last, hq>>

NextHash == Derive

SpecHash == InitHash /\ [][NextHash]_vars

(***************************************************************************)
(* The claims.                                                             *)
(***************************************************************************)
\* the entry's files hold, closed, what its writer was given
Written(e) ==
    /\ Complete(e)
    /\ ParseFloat(ent[e].data[FNAME_t]).ok
    /\ \E a \in RunArgs : Hash(a.sh, a.inputstr) = [h |-> ent[e].h, r |-> ent[e].data[FNAME_r]]
    /\ ent[e].data[FNAME_stdout] = ent[e].arg.res.stdout
    /\ ent[e].data[FNAME_stderr] = ent[e].arg.res.stderr
    /\ ent[e].data[FNAME_returncode] = FmtInt(ent[e].arg.res.returncode)

\* the timestamp an entry stores, in microseconds
Stored(e) == ParseFloat(ent[e].data[FNAME_t]).v

\* no process is inside _cache
NoWriter == \A p \in Procs : proc[p].pc \in {"idle", "done"}

\* C1: under any interleaving of writers of one key, `current` either does not
\* exist or names an entry all five of whose files have been completely
\* written; it never names an entry that is still being written.
C1_CurrentIsComplete ==
    \A b \in BaseDirs : current[b] # 0 => Written(current[b])

\* C1, its case: `current` names an entry while another writer's entry is
\* only partly written.
C1_Witness ==
    \E b \in BaseDirs, e \in Ids :
        /\ current[b] \notin {0, e}
        /\ ent[e].closed # {}
        /\ ~Complete(e)

Elapsed(s) == s.tnow - Stored(s.canonical)

ReadCalls == {"runsh", "_cached_runsh"}

\* C2: a reader whose open fails because a writer deleted the entry retries from
\* resolving `current`; it ends in the fatal 'unable to get a handle' error only
\* after CLICACHE_MAX_RETRIES failed attempts, so a read ends in a hit, a
\* CacheMiss or that error, never in the failure of an open.
C2_OpenFailureIsRetried ==
    \A p \in Procs :
        (proc[p].pc = "done" /\ proc[p].fn \in ReadCalls) =>
            \/ proc[p].out = "hit"
            \/ IsCacheMiss(proc[p].out)
            \/ /\ proc[p].out = "unable to get a handle"
               /\ proc[p].i >= CLICACHE_MAX_RETRIES

\* C4: the timestamp an entry stores is the timestamp argument of its writer, so
\* a read judges the age as now minus that argument.
C4_StoredTimestampIsArgument ==
    /\ \A e \in Ids : FNAME_t \in ent[e].closed => Stored(e) = ent[e].arg.t
    /\ \A p \in Procs :
          (proc[p].pc = "done" /\ proc[p].fn \in ReadCalls /\ proc[p].out = "hit") =>
              proc[p].tnow - ent[proc[p].canonical].arg.t <= proc[p].rmaxage

\* C6: round trip.  A read of a key that has been written returns a hit with
\* exactly the stdout, stderr and exit code its entry's writer was given
\* whenever the entry's age is at most max_age; it fails only when a concurrent
\* writer has deleted the entry it resolved.
C6_RoundTrip ==
    \A p \in Procs :
        LET s == proc[p] IN
        (s.pc = "done" /\ s.fn = "_cached_runsh" /\ s.had) =>
            /\ s.out \in {"hit", "cache entry is too old", "IOError"}
            /\ s.out = "hit" => s.ret = ent[s.canonical].arg.res
            /\ s.out = "cache entry is too old" =>
                  /\ Elapsed(s) > s.maxage
                  /\ s.tnow - ent[s.canonical].arg.t > s.maxage
            /\ s.out = "IOError" => \E f \in Fields : ~Linked(s.canonical, f)

\* C6, its case: a hit that returns a negative exit code and an empty stdout.
C6_Witness ==
    \E p \in Procs :
        /\ proc[p].pc = "done" /\ proc[p].fn = "_cached_runsh" /\ proc[p].out = "hit"
        /\ proc[p].ret.returncode < 0
        /\ proc[p].ret.stdout = <<>>
        /\ Elapsed(proc[p]) = proc[p].maxage

\* C7: a read signals CacheMiss (too old) exactly when now minus the stored
\* timestamp is strictly greater than the max_age of the call; at equality, or
\* below, it goes on to return the entry.
C7_ExpirationBoundary ==
    \A p \in Procs :
        LET s == proc[p] IN
        /\ (s.pc \in {"done", "exec"} /\ s.out = "cache entry is too old")
              => Elapsed(s) > s.rmaxage
        /\ (s.pc = "exec" /\ s.canonical # 0) => Elapsed(s) > s.rmaxage
        /\ (s.pc = "r_ret" \/ (s.pc = "done" /\ s.out = "hit"))
              => Elapsed(s) <= s.rmaxage

\* C7, its case: at one instant one entry is a hit for a call whose max_age
\* equals its age and a miss for a call with a smaller max_age.
C7_Witness ==
    \E p, q \in Procs :
        /\ proc[p].pc = "done" /\ proc[p].out = "hit"
        /\ proc[q].pc = "done" /\ proc[q].out = "cache entry is too old"
        /\ proc[p].canonical = proc[q].canonical
        /\ proc[p].tnow = proc[q].tnow
        /\ Elapsed(proc[p]) = proc[p].rmaxage
        /\ proc[q].rmaxage < proc[p].rmaxage

\* C8: runsh never lets CacheMiss reach its caller, whatever max_age the caller
\* gave and however other runs of the key interleave.
C8_NoCacheMissEscapes ==
    \A p \in Procs :
        (proc[p].pc = "done" /\ proc[p].fn = "runsh") => ~IsCacheMiss(proc[p].out)

\* C8, its case: a runsh with a negative max_age missed, executed, wrote and
\* returned its re-read, taken at a later clock value than the entry's timestamp.
C8_Witness ==
    \E p \in Procs :
        /\ proc[p].pc = "done" /\ proc[p].fn = "runsh" /\ proc[p].out = "hit"
        /\ proc[p].maxage < 0
        /\ proc[p].id # 0
        /\ Elapsed(proc[p]) > 0

\* p is a finished runsh that began after a runsh recorded in prev had
\* completed, with no other process changing the shard since that completion,
\* and whose read found the entry no older than its maxage
LaterRunsh(p, a) ==
    /\ proc[p].pc = "done" /\ proc[p].fn = "runsh"
    /\ a \in proc[p].prev
    /\ a.maxage = proc[p].maxage
    /\ proc[p].age1 = "fresh"

\* p returned what the earlier call a returned, without executing or writing
SameAsBefore(p, a) ==
    /\ proc[p].out = "hit"
    /\ proc[p].id = 0
    /\ proc[p].ret = a.ret

\* C5 as stated: once a runsh has completed and no other process writes the key
\* afterwards, a later runsh of the same command, input and maxage, reading the
\* entry while its age is at most maxage, returns the identical tuple without
\* executing the command and without writing an entry.
C5_Original ==
    \A p \in Procs : \A a \in proc[p].prev : LaterRunsh(p, a) => SameAsBefore(p, a)

\* C5: the same, for an earlier runsh during which no other process wrote the
\* key either.
C5_RepeatIsServedFromCache ==
    \A p \in Procs : \A a \in proc[p].prev :
        (LaterRunsh(p, a) /\ a.clean) => SameAsBefore(p, a)

\* C5, its case: a later runsh served from the entry an undisturbed earlier
\* runsh left, whose result is not the default one.
C5_Witness ==
    \E p \in Procs : \E a \in proc[p].prev :
        /\ LaterRunsh(p, a) /\ a.clean
        /\ SameAsBefore(p, a)
        /\ a.ret.returncode < 0
        /\ nwrites = MaxEntries

\* C9: a read of a current entry whose stored timestamp or stored exit code
\* cannot be parsed ends in a fatal error, never in CacheMiss, whatever the
\* max_age and the age of the entry.
C9_CorruptionIsFatal ==
    \A p \in Procs :
        (proc[p].pc = "done" /\ proc[p].sawbad) =>
            proc[p].out \in {"unexpected timestamp value", "unexpected returncode value"}

\* both derivations are done
Derived == hres # <<>>

HasInput(a) == a.inputstr # NoInput

\* C10 as stated: derivation is deterministic, and pairs that differ in the
\* command, in the input or in having an input yield different canonical texts
\* and different keys (here for commands of one form, both shell strings or
\* both argument lists, so that a list and its shell string do not count as
\* different commands).
C10_Original ==
    Derived =>
        /\ hq[1] = hq[2] => hres[1] = hres[2]
        /\ (hq[1] # hq[2] /\ hq[1].sh.kind = hq[2].sh.kind)
             => (hres[1].r # hres[2].r /\ hres[1].h # hres[2].h)

\* C10: derivation is deterministic, and two differing pairs yield different
\* canonical texts and keys when their commands are the same, or when their
\* commands are of the same form (both shell strings or both argument lists)
\* and both have an input or both have none.
C10_DistinctKeys ==
    Derived =>
        /\ hq[1] = hq[2] => hres[1] = hres[2]
        /\ ( /\ hq[1] # hq[2]
             /\ \/ hq[1].sh = hq[2].sh
                \/ /\ hq[1].sh.kind = hq[2].sh.kind
                   /\ HasInput(hq[1]) = HasInput(hq[2]) )
            => (hres[1].r # hres[2].r /\ hres[1].h # hres[2].h)

\* C10, its case: one command derived with no input and with the empty input
C10_Witness ==
    /\ Derived
    /\ hq[1].sh = hq[2].sh
    /\ hq[1].sh.kind = "argv"
    /\ hq[1].inputstr = NoInput
    /\ hq[2].inputstr = <<>>
    /\ hres[1].h # hres[2].h

\* entry e has been renamed onto `current`
WasCurrent(e) == ent[e].promoted >= 1

\* entry e is not newer than entry c, by its stored timestamp or by the
\* timestamp its writer was given
NotNewer(e, c) ==
    \/ Stored(e) <= Stored(c)
    \/ ent[e].arg.t <= ent[c].arg.t

\* C11: _cache replaces the current entry only when that entry is older than
\* the given one, and leaves a newer current entry in place; so no entry that
\* has been current is newer than the entry that is current now.
C11_ReplacesOnlyOlder ==
    \A b \in BaseDirs : \A e \in Ids :
        (current[b] \notin {0, e} /\ Hash2Dir(ent[e].h) = b /\ WasCurrent(e))
            => NotNewer(e, current[b])

\* the entries whose directory is in the shard path b
OnDisk(b) == {e \in Ids : ent[e].exists /\ Hash2Dir(ent[e].h) = b}

\* C12: after writes of one key that do not overlap, when a write has returned
\* `current` names the entry of the most recent write, and the shard path holds
\* that entry's directory, with its five files, and no other.
C12_SequentialWrites ==
    (NoWriter /\ nwrites > 0) =>
        \A b \in BaseDirs :
            /\ current[b] = Len(ent)
            /\ current[b] = lastren[b]
            /\ OnDisk(b) = {current[b]}
            /\ \A f \in Fields : Linked(current[b], f)
            /\ \A e \in Ids \ {current[b]} : ent[e].names = {}

\* C12, its case: the third write has returned, by another process than the
\* one before, and the two earlier entries are gone.
C12_Witness ==
    /\ NoWriter
    /\ Len(ent) = MaxWrites
    /\ \A e \in 1..(MaxWrites - 1) : ~ent[e].exists /\ WasCurrent(e)
    /\ \E p \in Procs : proc[p].pc = "done" /\ proc[p].id = MaxWrites
                          /\ proc[p].old = MaxWrites - 1

\* p is past its rename and removing the entry it read as `current`
Removing(p) == proc[p].pc \in {"w_listdir", "w_unlink", "w_rmdir"}

\* this step removes a file of entry e, or its directory
Deletes(e) ==
    \/ ent[e].names \ ent'[e].names # {}
    \/ ent[e].exists /\ ~ent'[e].exists

\* C14: every entry becomes the target of `current` at most once; an entry is
\* deleted only after a different entry has been renamed onto `current` in its
\* place, by a writer that read it as `current` before its own rename, and
\* never by the writer that created it.
C14_EntryLifecycle ==
    [][ /\ \A e \in 1..Len(ent') : ent'[e].promoted <= 1
        /\ \A e \in Ids :
              Deletes(e) =>
                  /\ WasCurrent(e)
                  /\ current[Hash2Dir(ent[e].h)] \notin {0, e}
                  /\ \E p \in Procs :
                        /\ Removing(p)
                        /\ proc[p].old = e
                        /\ proc[p].id # e
                        /\ WasCurrent(proc[p].id) ]_vars

\* C14, its case: a writer has returned after deleting the entry it replaced.
C14_Witness ==
    \E p \in Procs :
        /\ proc[p].pc = "done" /\ proc[p].old # 0
        /\ ~ent[proc[p].old].exists
        /\ WasCurrent(proc[p].old)
        /\ current[BaseDir(proc[p])] = proc[p].id

\* C15: `current` never names an entry that has been deleted or is being
\* deleted: the entry a writer removes after its rename is not the target of
\* `current` from the moment the removal starts.
C15_CurrentIsNeverDeleted ==
    \A b \in BaseDirs :
        current[b] # 0 =>
            /\ ent[current[b]].exists
            /\ \A f \in Fields : Linked(current[b], f)
            /\ \A p \in Procs : Removing(p) => proc[p].old # current[b]

\* C15, its case: an entry is half removed while a third entry is current.
C15_Witness ==
    \E p \in Procs :
        /\ proc[p].pc = "w_unlink"
        /\ ent[proc[p].old].names \notin {{}, Fields}
        /\ current[BaseDir(proc[p])] \notin {proc[p].id, proc[p].old}

\* C17: a write whose removal of the superseded entry fails still completes:
\* _cache returns normally, its entry having been renamed onto `current` and
\* still being current unless a later rename replaced it, and `current` names
\* an entry that is intact.
C17_CleanupFailureIsSwallowed ==
    \A p \in Procs :
        (proc[p].pc = "done" /\ proc[p].fn = "_cache") =>
            /\ proc[p].out = "stored"
            /\ WasCurrent(proc[p].id)
            /\ lastren[BaseDir(proc[p])] = proc[p].id
                  => current[BaseDir(proc[p])] = proc[p].id
            /\ Written(current[BaseDir(proc[p])])

\* C17, its case: two writers read the same old entry as `current`; both have
\* returned, and only one of them can have removed each file and the directory.
C17_Witness ==
    \E p, q \in Procs :
        /\ p # q
        /\ proc[p].pc = "done" /\ proc[q].pc = "done"
        /\ proc[p].out = "stored" /\ proc[q].out = "stored"
        /\ proc[p].old # 0 /\ proc[p].old = proc[q].old
        /\ ~ent[proc[p].old].exists

\* C18: once an entry is fully written its five fields never change; the only
\* later change to it is its deletion, and every write creates its entry under
\* an identifier no entry had before.
C18_EntriesAreImmutable ==
    [][ /\ \A e \in Ids :
              Complete(e) =>
                  /\ ent'[e].data = ent[e].data
                  /\ ent'[e].closed = ent[e].closed
                  /\ ent'[e].names \subseteq ent[e].names
                  /\ ent'[e].h = ent[e].h
        /\ \A p \in Procs :
              (proc'[p].id # proc[p].id /\ proc'[p].id # 0) =>
                  /\ proc'[p].id \notin Ids
                  /\ Len(ent') = Len(ent) + 1 ]_vars

\* C18, its case: two complete entries of one key with different contents
\* exist side by side.
C18_Witness ==
    \E e1, e2 \in Ids :
        /\ e1 < e2
        /\ Complete(e1) /\ Complete(e2)
        /\ ent[e1].exists /\ ent[e2].exists
        /\ ent[e1].h = ent[e2].h
        /\ ent[e1].data[FNAME_stdout] # ent[e2].data[FNAME_stdout]
        /\ ent[e1].data[FNAME_t] # ent[e2].data[FNAME_t]

\* C16: every hit a read returns is the triple of one entry that a writer of
\* that key wrote completely, the entry whose files the reader opened, also
\* when that entry is deleted while the reader holds the handles.
C16_HitIsOneWholeEntry ==
    \A p \in Procs :
        LET s == proc[p] IN
        (s.pc = "done" /\ s.fn \in ReadCalls /\ s.out = "hit") =>
            /\ s.canonical \in Ids
            /\ ent[s.canonical].h = s.h
            /\ Written(s.canonical)
            /\ s.ret = ent[s.canonical].arg.res

\* C16, its case: a hit on an entry that a writer removed while the reader
\* held its open files, a different entry being current.
C16_Witness ==
    \E p \in Procs :
        /\ proc[p].pc = "done" /\ proc[p].fn \in ReadCalls /\ proc[p].out = "hit"
        /\ ~ent[proc[p].canonical].exists
        /\ current[BaseDir(proc[p])] # proc[p].canonical
        /\ ent[current[BaseDir(proc[p])]].arg.res # proc[p].ret

\* p is inside _cached_runsh
Reading(p) == proc[p].pc \in {"r_link", "r_open", "r_age", "r_ret"}

\* C19: no step of the reader changes the cache, in any outcome: it creates,
\* modifies and deletes no entry and leaves `current` alone.
C19_ReaderChangesNothing ==
    [][ \A p \in Procs :
          (Reading(p) /\ proc'[p] # proc[p]) =>
              UNCHANGED <<dirs, ent, tmp, current, lastren>> ]_vars

\* C19, its case: a read has found the current entry too old, and the entry
\* is still current and intact.
C19_Witness ==
    \E p \in Procs :
        /\ proc[p].pc = "done" /\ proc[p].fn = "_cached_runsh"
        /\ proc[p].out = "cache entry is too old"
        /\ current[BaseDir(proc[p])] = proc[p].canonical
        /\ Written(proc[p].canonical)
        /\ \A f \in Fields : Linked(proc[p].canonical, f)
        /\ \A q \in Procs \ {p} : proc[q].pc = "idle"

\* C20: with a negative max age the first read of runsh always signals
\* CacheMiss, also when a current entry exists, so every such call executes
\* the command and writes a new entry that replaces `current`.
C20_NegativeMaxAgeAlwaysExecutes ==
    \A p \in Procs :
        (proc[p].pc = "done" /\ proc[p].fn = "runsh" /\ proc[p].maxage < 0) =>
            /\ proc[p].id # 0
            /\ WasCurrent(proc[p].id)

\* every directory on the way to the shard path of s exists
ShardPathExists(s) ==
    \A j \in 1..NLevels(BaseDir(s)) : Level(BaseDir(s), j) \in dirs

\* C13: writers whose keys share shard-prefix directories, or the key, and
\* that create the shard path at the same time never fail with 'directory
\* already exists': each goes on, with the shard path in place, to create its
\* own entry, and no two writers pick the same entry identifier.
C13_MakedirsRaceIsAbsorbed ==
    \A p \in Procs :
        LET s == proc[p] IN
        /\ s.out # "OSError"
        /\ s.pc \notin {"idle", "mk_exists", "mk_mkdir"} => ShardPathExists(s)
        /\ s.pc = "done" => s.out = "stored"
        /\ s.id # 0 =>
              /\ s.id \in Ids
              /\ ent[s.id].h = s.h
              /\ \A q \in Procs \ {p} : proc[q].id # s.id

\* C13, its case: two writers of different keys have created their entries,
\* one of them having met EEXIST on a directory that both shard paths share.
C13_Witness ==
    \E p, q \in Procs :
        /\ proc[p].h # proc[q].h
        /\ proc[p].id # 0 /\ proc[q].id # 0
        /\ \E j \in proc[p].eexist :
              /\ j < NLevels(BaseDir(proc[p]))
              /\ Level(BaseDir(proc[p]), j) = Level(BaseDir(proc[q]), j)

====
